---- MODULE Spec2Model ----
(***************************************************************************)
(* Model of the variant annotation tool:                                   *)
(*   variant_annotation.py  main, write_futures_in_order                   *)
(*   src/annotation.py      build_annotation                               *)
(*   src/vep.py             make_vep_request (tenacity retry policy),      *)
(*                          get_genes_for_most_severe_consequence          *)
(* The orchestrating thread and the pool workers are interleaved; one      *)
(* orchestrator action runs from one blocking point to the next.           *)
(***************************************************************************)
EXTENDS Integers, Sequences, FiniteSets

\* ---------------------------------------------------------------- bounds
MaxN == 3          \* longest input (number of variants yielded by read_vcf)
MaxBatch == 2      \* largest --batch_size tried
MaxThreads == 2    \* largest --threads tried
MaxTranscripts == 2 \* longest transcript_consequences list of a drawn record
MaxDepth == 2      \* largest depth / read count of a drawn raw tuple
MaxAlleleLen == 3  \* longest ref / alt string handed to make_hgvs

\* ------------------------------------------------------ program constants
MaxAttempts == 3   \* stop_after_attempt(3)

None == "None"

\* ------------------------------------------------------------ data model
\* Read counts (ref_reads, alt_reads) a Variant of the input may carry.
ReadPairs == { <<2, 1>>, <<0, 0>> }

\* A Variant as yielded by read_vcf; positions are distinct along the file.
MkVariant(p, rp) == [pos |-> p, ref_reads |-> rp[1], alt_reads |-> rp[2]]

Labels == {"missense_variant", "intron_variant"}
Genes == {"GENE_A", "GENE_B"}

\* One element of response.json(): most_severe_consequence plus the optional
\* key transcript_consequences (has_tc = key present).
MkVep(msc, present, tcs) ==
  [most_severe_consequence |-> msc, has_tc |-> present, transcript_consequences |-> tcs]

Transcript(g, terms) == [gene_symbol |-> g, consequence_terms |-> terms]

\* What the lookup service holds for a variant (a function of the variant,
\* the same at every attempt): matching second transcript / key absent /
\* transcripts present but none matching.
VepTable ==
  << MkVep("missense_variant", TRUE,
           << Transcript("GENE_A", {"intron_variant"}),
              Transcript("GENE_B", {"missense_variant", "intron_variant"}) >>),
     MkVep("intergenic_variant", FALSE, << >>),
     MkVep("missense_variant", TRUE,
           << Transcript("GENE_A", {"intron_variant"}) >>) >>

VepFor(v) == VepTable[((v.pos - 1) % Len(VepTable)) + 1]

\* ------------------------------------------------------------ src/vep.py
\* vep_record.get("transcript_consequences", [])
GetTranscripts(vep_record) ==
  IF vep_record.has_tc THEN vep_record.transcript_consequences ELSE << >>

RECURSIVE FirstMatchFrom(_, _, _)
FirstMatchFromLast(tcs, most_severe, i) ==
  LET M == { j \in 1..Len(tcs) : most_severe \in tcs[j].consequence_terms }
  IN IF M = {} THEN None
     ELSE tcs[CHOOSE j \in M : \A k \in M : k <= j].gene_symbol

\* the for loop of get_genes_for_most_severe_consequence, from transcript i on
FirstMatchFrom(tcs, most_severe, i) ==
  IF i > Len(tcs) THEN None
  ELSE IF most_severe \in tcs[i].consequence_terms THEN tcs[i].gene_symbol
  ELSE FirstMatchFrom(tcs, most_severe, i + 1)

get_genes_for_most_severe_consequence(vep_record) ==
  FirstMatchFrom(GetTranscripts(vep_record), vep_record.most_severe_consequence, 1)

\* Exception classes an attempt of make_vep_request can end with.
RetryableClasses == {"ConnectionError", "JSONDecodeError", "HTTPError"}
FatalClasses == {"TypeError"}

\* retry=retry_if_exception_type(RequestException) | ... : retry or not
RetryPredicateAll(exc) == TRUE

RetryPredicate(exc) == exc \in RetryableClasses

\* stop=stop_after_attempt(3)
StopAfterAttemptFour(attempt_number) == attempt_number >= MaxAttempts + 1

StopAfterAttempt(attempt_number) == attempt_number >= MaxAttempts

\* return response.json(), handed to the caller by the retry wrapper whatever
\* the number of the attempt that produced it
MakeVepRequestReturnNoneAfterRetry(response, attempt_number) ==
  IF attempt_number > 1 THEN << >> ELSE response

MakeVepRequestReturn(response, attempt_number) == response

\* ------------------------------------------------------ src/annotation.py
\* round(alt_reads * 100 / (alt_reads + ref_reads), 2), in hundredths of a
\* percent (nearest integer; the drawn read counts produce no ties).
AltPerc(v) ==
  LET d == v.alt_reads + v.ref_reads
  IN (2 * v.alt_reads * 10000 + d) \div (2 * d)

\* AnnotatedVariant(**variant.model_dump(), gene=..., consequence=..., alt_perc=...)
MkAnnotatedNoConsequence(v, vep_data) ==
  [pos |-> v.pos, ref_reads |-> v.ref_reads, alt_reads |-> v.alt_reads,
   gene |-> get_genes_for_most_severe_consequence(vep_data),
   consequence |-> IF get_genes_for_most_severe_consequence(vep_data) = None
                   THEN None ELSE vep_data.most_severe_consequence,
   alt_perc |-> AltPerc(v)]

MkAnnotated(v, vep_data) ==
  [pos |-> v.pos, ref_reads |-> v.ref_reads, alt_reads |-> v.alt_reads,
   gene |-> get_genes_for_most_severe_consequence(vep_data),
   consequence |-> vep_data.most_severe_consequence,
   alt_perc |-> AltPerc(v)]

Ok(value) == [status |-> "ok", value |-> value, error |-> "none"]
Raise(error) == [status |-> "error", value |-> << >>, error |-> error]

\* The merge loop of build_annotation: for idx, vep_data in enumerate(...)
RECURSIVE MergeFrom(_, _, _, _)
MergeFrom(variant_data_batch, vep_data_batch, idx, annotated_variants) ==
  IF idx > Len(vep_data_batch) THEN Ok(annotated_variants)
  ELSE IF idx > Len(variant_data_batch) THEN Raise("IndexError")
  ELSE IF variant_data_batch[idx].alt_reads + variant_data_batch[idx].ref_reads = 0
       THEN Raise("ZeroDivisionError")
  ELSE MergeFrom(variant_data_batch, vep_data_batch, idx + 1,
                 Append(annotated_variants,
                        MkAnnotated(variant_data_batch[idx], vep_data_batch[idx])))

\* What the service sends back for a request: index-aligned, one element
\* short (a variant the service skipped), or one element too many.
ResponseKinds == {"aligned", "short", "long"}

ServiceResponse(variant_data_batch, kind) ==
  LET aligned == [i \in 1..Len(variant_data_batch) |-> VepFor(variant_data_batch[i])]
  IN CASE kind = "aligned" -> aligned
       [] kind = "short" -> SubSeq(aligned, 1, Len(aligned) - 1)
       [] kind = "long" -> Append(aligned, VepTable[1])
       [] OTHER -> << >>

\* --------------------------------------------------- src/compute_hgvs.py
\* Strings are sequences of characters.
DigitChars == << "0", "1", "2", "3", "4", "5", "6", "7", "8", "9" >>

\* str(n) of an f-string field holding an int
RECURSIVE Str(_)
Str(n) ==
  IF n < 0 THEN << "-" >> \o Str(0 - n)
  ELSE IF n < 10 THEN << DigitChars[n + 1] >>
  ELSE Str(n \div 10) \o << DigitChars[(n % 10) + 1] >>

\* while prefix < len(ref) and prefix < len(alt) and ref[prefix] == alt[prefix]
RECURSIVE PrefixLoop(_, _, _)
PrefixLoop(ref, alt, prefix) ==
  IF prefix < Len(ref) /\ prefix < Len(alt) /\ ref[prefix + 1] = alt[prefix + 1]
  THEN PrefixLoop(ref, alt, prefix + 1)
  ELSE prefix

\* ref[prefix:]
KeepPrefix(str, prefix) == str

DropPrefix(str, prefix) == SubSeq(str, prefix + 1, Len(str))

\* while suffix < len(ref_trimmed) and suffix < len(alt_trimmed) and
\*       ref_trimmed[-(suffix + 1)] == alt_trimmed[-(suffix + 1)]
RECURSIVE SuffixLoop(_, _, _)
SuffixLoop(ref_trimmed, alt_trimmed, suffix) ==
  IF /\ suffix < Len(ref_trimmed)
     /\ suffix < Len(alt_trimmed)
     /\ ref_trimmed[Len(ref_trimmed) - suffix] = alt_trimmed[Len(alt_trimmed) - suffix]
  THEN SuffixLoop(ref_trimmed, alt_trimmed, suffix + 1)
  ELSE suffix

\* ref_trimmed[:-suffix] if suffix > 0 else ref_trimmed
DropSuffix(str, suffix) ==
  IF suffix > 0 THEN SubSeq(str, 1, Len(str) - suffix) ELSE str

\* end = pos + len(ref_final) - 1
SpanEndOffByOne(pos, ref_final) == pos + Len(ref_final)

SpanEnd(pos, ref_final) == pos + Len(ref_final) - 1

\* left = pos - 1
InsLeftAtPos(pos) == pos

InsLeft(pos) == pos - 1

\* The four return statements: the f-string and the class.
Classify(chrom, pos, ref_final, alt_final) ==
  LET head == chrom \o << ":", "g", "." >>
  IN IF Len(ref_final) = 1 /\ Len(alt_final) = 1
     THEN [notation |-> head \o Str(pos) \o ref_final \o << ">" >> \o alt_final,
           variant_type |-> "sub"]
     ELSE IF Len(ref_final) > 0 /\ Len(alt_final) = 0
     THEN IF Len(ref_final) = 1
          THEN [notation |-> head \o Str(pos) \o << "d", "e", "l" >>,
                variant_type |-> "del"]
          ELSE [notation |-> head \o Str(pos) \o << "_" >>
                               \o Str(SpanEnd(pos, ref_final)) \o << "d", "e", "l" >>,
                variant_type |-> "del"]
     ELSE IF Len(ref_final) = 0 /\ Len(alt_final) > 0
     THEN [notation |-> head \o Str(InsLeft(pos)) \o << "_" >> \o Str(pos)
                          \o << "i", "n", "s" >> \o alt_final,
           variant_type |-> "ins"]
     ELSE [notation |-> head \o Str(pos) \o << "_" >> \o Str(SpanEnd(pos, ref_final))
                          \o << "d", "e", "l", "i", "n", "s" >> \o alt_final,
           variant_type |-> "delins"]

\* make_hgvs(chrom, pos, ref, alt): the returned pair, with the locals the
\* function holds when it returns
make_hgvs(chrom, pos, ref, alt) ==
  LET prefix == PrefixLoop(ref, alt, 0)
      ref_trimmed == DropPrefix(ref, prefix)
      alt_trimmed == DropPrefix(alt, prefix)
      pos1 == pos + prefix
      suffix == SuffixLoop(ref_trimmed, alt_trimmed, 0)
      ref_final == DropSuffix(ref_trimmed, suffix)
      alt_final == DropSuffix(alt_trimmed, suffix)
      ret == Classify(chrom, pos1, ref_final, alt_final)
  IN [notation |-> ret.notation, variant_type |-> ret.variant_type,
      prefix |-> prefix, suffix |-> suffix, pos |-> pos1,
      ref_final |-> ref_final, alt_final |-> alt_final]

\* -------------------------------------------------------------- state
VARIABLES
  input,       \* the Variants read_vcf yields, in file order
  batch_size,  \* args.batch_size
  threads,     \* args.threads
  next,        \* index of the next Variant the generator yields
  batch,       \* main: batch (the content of the list it is bound to)
  batch_obj,   \* identity of the list object batch is bound to
  futures,     \* main: futures (handles, as indices into work)
  work,        \* every unit of work submitted to the executor, with its Future
  emitted,     \* the rows passed to writer.writerow, in order
  pc,          \* where the orchestrating thread is
  drain_idx,   \* write_futures_in_order: position of its for loop
  vep_record,  \* argument of a direct call: one response element
  fn_variant,  \* argument of a direct call: the Variant it is merged onto
  fn_pc,       \* which direct call has returned
  gene_ret,    \* value get_genes_for_most_severe_consequence returned
  build_ret,   \* outcome of build_annotation([fn_variant]) given [vep_record]
  raw,         \* keyword arguments of a direct Variant(...) construction
  ctor_ret,    \* its outcome: the Variant, or the validation error
  ctor_pc,     \* where the direct construction is
  hgvs_args,   \* arguments of a direct call of make_hgvs
  hgvs_ret,    \* what it returned, with its locals at the return
  hgvs_pc      \* whether make_hgvs has returned

pipeVars == << input, batch_size, threads, next, batch, batch_obj, futures, work, emitted, pc, drain_idx >>
fnVars == << vep_record, fn_variant, fn_pc, gene_ret, build_ret >>
ctorVars == << raw, ctor_ret, ctor_pc >>
hgvsVars == << hgvs_args, hgvs_ret, hgvs_pc >>
directVars == << fnVars, ctorVars, hgvsVars >>
vars == << pipeVars, directVars >>

\* executor.submit(build_annotation, batch): a new unit of work, not started,
\* holding a reference to the list object obj whose content is b
NewWork(b, obj) ==
  [batch |-> b, obj |-> obj, status |-> "running", attempts |-> 0, exc |-> "none",
   resp |-> "none", result |-> << >>, error |-> "none"]

\* A change of list object obj is seen through every reference to it.
WriteThrough(ws, obj, content) ==
  [k \in 1..Len(ws) |->
     IF ws[k].obj = obj THEN [ws[k] EXCEPT !.batch = content] ELSE ws[k]]

\* batch = []: batch is bound to a new, empty list object
ClearedList(obj) == obj

FreshList(obj) == obj + 1

\* if len(batch) == args.batch_size
BatchFullLate(b, n) == Len(b) = n + 1

BatchFull(b, n) == Len(b) = n

\* future.result() returns or raises only once the future is resolved
FutureResolvedAlways(w) == TRUE

FutureResolved(w) == w.status # "running"

\* futures.append(future)
AppendFutureFront(fs, future) == << future >> \o fs

AppendFuture(fs, future) == Append(fs, future)

\* if len(futures) == args.threads
GroupFullNever(fs, n) == FALSE

GroupFull(fs, n) == Len(fs) = n

\* ---------------------------------------------------------- src/models.py
Bases == {"A", "C", "G", "T"}

\* Field(pattern=r"^[ACGT]+$")
MatchesACGT(allele) == Len(allele) >= 1 /\ \A i \in 1..Len(allele) : allele[i] \in Bases

\* The field constraints of Variant (Field(gt=0), pattern, ge=0, ge=0.0/le=1.0);
\* maf is in hundredths.
FieldsValid(kw) ==
  /\ kw.pos > 0
  /\ MatchesACGT(kw.ref)
  /\ MatchesACGT(kw.alt)
  /\ kw.depth >= 0
  /\ kw.ref_reads >= 0
  /\ kw.alt_reads >= 0
  /\ kw.maf >= 0 /\ kw.maf <= 100

\* validate_alt_ref_equality: passes or raises
validate_alt_ref_equality(self) == self.alt # self.ref

\* validate_read_depths: passes or raises
ReadDepthsUnchecked(self) == TRUE

validate_read_depths(self) == ~(self.ref_reads + self.alt_reads > self.depth)

\* Variant(**kw): field validation, then the two model validators
VariantCtor(kw) ==
  IF ~FieldsValid(kw) THEN Raise("ValidationError")
  ELSE IF ~validate_alt_ref_equality(kw) THEN Raise("ValidationError")
  ELSE IF ~validate_read_depths(kw) THEN Raise("ValidationError")
  ELSE Ok(kw)

\* No direct construction in progress.
CtorParked ==
  /\ raw = << >>
  /\ ctor_ret = Ok(<< >>)
  /\ ctor_pc = "off"

\* No direct call of make_hgvs in progress.
HgvsParked ==
  /\ hgvs_args = << >>
  /\ hgvs_ret = << >>
  /\ hgvs_pc = "off"

Init ==
  /\ \E n \in 0..MaxN : \E rp \in [1..n -> ReadPairs] :
       input = [i \in 1..n |-> MkVariant(i, rp[i])]
  /\ batch_size \in 1..MaxBatch
  /\ threads \in 1..MaxThreads
  /\ next = 1
  /\ batch = << >>
  /\ batch_obj = 0
  /\ futures = << >>
  /\ work = << >>
  /\ emitted = << >>
  /\ pc = "loop"
  /\ drain_idx = 0
  /\ vep_record = VepTable[1]
  /\ fn_variant = MkVariant(1, << 2, 1 >>)
  /\ fn_pc = "off"
  /\ gene_ret = None
  /\ build_ret = Ok(<< >>)
  /\ CtorParked
  /\ HgvsParked

\* One iteration of `for variant in read_vcf(...)`, up to the next blocking
\* point: append, submit a full batch, enter the drain when the group is full.
\* batch.append changes the list object in place; batch = [] rebinds the name.
ReadVariant ==
  /\ pc = "loop"
  /\ next <= Len(input)
  /\ next' = next + 1
  /\ LET b1 == Append(batch, input[next])
         w0 == WriteThrough(work, batch_obj, b1)
         f1 == AppendFuture(futures, Len(work) + 1)
     IN IF BatchFull(b1, batch_size)
        THEN /\ work' = WriteThrough(Append(w0, NewWork(b1, batch_obj)),
                                     FreshList(batch_obj), << >>)
             /\ batch' = << >>
             /\ batch_obj' = FreshList(batch_obj)
             /\ futures' = f1
             /\ IF GroupFull(f1, threads)
                THEN pc' = "drain" /\ drain_idx' = 1
                ELSE UNCHANGED << pc, drain_idx >>
        ELSE /\ batch' = b1
             /\ work' = w0
             /\ UNCHANGED << batch_obj, futures, pc, drain_idx >>
  /\ UNCHANGED << input, batch_size, threads, emitted, directVars >>

\* After the for loop: submit the partial batch, then the final drain.
\* Neither batch nor futures is rebound here.
ExhaustInput ==
  /\ pc = "loop"
  /\ next > Len(input)
  /\ LET f1 == IF batch # << >> THEN AppendFuture(futures, Len(work) + 1) ELSE futures
     IN /\ futures' = f1
        /\ work' = IF batch # << >> THEN Append(work, NewWork(batch, batch_obj)) ELSE work
        /\ IF f1 # << >>
           THEN pc' = "final_drain" /\ drain_idx' = 1
           ELSE pc' = "done" /\ UNCHANGED drain_idx
  /\ UNCHANGED << input, batch_size, threads, next, batch, batch_obj, emitted, directVars >>

\* One iteration of the for loop of write_futures_in_order: future.result()
\* blocks until that future is resolved, raises if the unit of work raised,
\* and otherwise every row of the batch is written.
WriteFuturesInOrder ==
  /\ pc \in {"drain", "final_drain"}
  /\ LET w == work[futures[drain_idx]]
     IN /\ FutureResolved(w)
        /\ IF w.status = "failed"
           THEN /\ pc' = "aborted"
                /\ UNCHANGED << emitted, futures, drain_idx >>
           ELSE /\ emitted' = emitted \o w.result
                /\ IF drain_idx < Len(futures)
                   THEN /\ drain_idx' = drain_idx + 1
                        /\ UNCHANGED << pc, futures >>
                   ELSE /\ drain_idx' = 0
                        /\ IF pc = "drain"
                           THEN pc' = "loop" /\ futures' = << >>
                           ELSE pc' = "done" /\ UNCHANGED futures
  /\ UNCHANGED << input, batch_size, threads, next, batch, batch_obj, work, directVars >>

\* What one attempt of make_vep_request can end with.
Outcomes == ResponseKinds \cup RetryableClasses \cup FatalClasses

\* A pool worker runs one attempt of make_vep_request for unit of work k
\* (build_annotation); a response is merged at once, an exception goes
\* through the retry policy.
AttemptResult(w, outcome) ==
  LET n == w.attempts + 1
      merged == MergeFrom(w.batch,
                          MakeVepRequestReturn(ServiceResponse(w.batch, outcome), n),
                          1, << >>)
  IN IF outcome \in ResponseKinds
     THEN IF merged.status = "ok"
          THEN [w EXCEPT !.attempts = n, !.exc = "none", !.resp = outcome,
                         !.status = "done", !.result = merged.value]
          ELSE [w EXCEPT !.attempts = n, !.exc = "none", !.resp = outcome,
                         !.status = "failed", !.error = merged.error]
     ELSE IF RetryPredicate(outcome)
          THEN IF StopAfterAttempt(n)
               THEN [w EXCEPT !.attempts = n, !.exc = outcome,
                              !.status = "failed", !.error = "RetryError"]
               ELSE [w EXCEPT !.attempts = n, !.exc = outcome]
          ELSE [w EXCEPT !.attempts = n, !.exc = outcome,
                         !.status = "failed", !.error = outcome]

Attempt ==
  /\ \E k \in 1..Len(work) :
       /\ work[k].status = "running"
       /\ \E outcome \in Outcomes :
            work' = [work EXCEPT ![k] = AttemptResult(work[k], outcome)]
  /\ UNCHANGED << input, batch_size, threads, next, batch, batch_obj, futures, emitted, pc, drain_idx, directVars >>

Next == ReadVariant \/ ExhaustInput \/ WriteFuturesInOrder \/ Attempt

Spec == Init /\ [][Next]_vars

\* ------------------------------------------- direct calls of the merge step
\* Response elements the direct calls are tried on.
TranscriptLists ==
  UNION { [1..n -> { Transcript(g, t) : g \in Genes, t \in SUBSET Labels }]
          : n \in 0..MaxTranscripts }

VepRecords ==
  { MkVep(m, TRUE, tcs) : m \in Labels, tcs \in TranscriptLists }
    \cup { MkVep(m, FALSE, << >>) : m \in Labels }

InitGene ==
  /\ input = << >>
  /\ batch_size = 1
  /\ threads = 1
  /\ next = 1
  /\ batch = << >>
  /\ batch_obj = 0
  /\ futures = << >>
  /\ work = << >>
  /\ emitted = << >>
  /\ pc = "off"
  /\ drain_idx = 0
  /\ vep_record \in VepRecords
  /\ fn_variant \in { MkVariant(1, rp) : rp \in ReadPairs }
  /\ fn_pc = "call"
  /\ gene_ret = None
  /\ build_ret = Ok(<< >>)
  /\ CtorParked
  /\ HgvsParked

\* get_genes_for_most_severe_consequence(vep_record)
CallGetGenes ==
  /\ fn_pc = "call"
  /\ gene_ret' = get_genes_for_most_severe_consequence(vep_record)
  /\ fn_pc' = "genes"
  /\ UNCHANGED << pipeVars, vep_record, fn_variant, build_ret, ctorVars, hgvsVars >>

\* build_annotation([fn_variant]) when the service answers [vep_record]
CallBuildAnnotation ==
  /\ fn_pc = "call"
  /\ build_ret' = MergeFrom(<< fn_variant >>, << vep_record >>, 1, << >>)
  /\ fn_pc' = "annotated"
  /\ UNCHANGED << pipeVars, vep_record, fn_variant, gene_ret, ctorVars, hgvsVars >>

NextGene == CallGetGenes \/ CallBuildAnnotation

SpecGene == InitGene /\ [][NextGene]_vars

\* ------------------------------------- direct construction of a Variant
\* Raw allele strings, as sequences of characters.
RawAlleles == { << >>, << "A" >>, << "C" >>, << "A", "C" >>, << "N" >>, << "A", "N" >> }

RawTuples ==
  [pos : {-1, 0, 1}, ref : RawAlleles, alt : RawAlleles,
   depth : 0..MaxDepth, ref_reads : 0..MaxDepth, alt_reads : 0..MaxDepth,
   maf : {-1, 0, 50, 100, 101}]

InitVariant ==
  /\ input = << >>
  /\ batch_size = 1
  /\ threads = 1
  /\ next = 1
  /\ batch = << >>
  /\ batch_obj = 0
  /\ futures = << >>
  /\ work = << >>
  /\ emitted = << >>
  /\ pc = "off"
  /\ drain_idx = 0
  /\ vep_record = VepTable[1]
  /\ fn_variant = MkVariant(1, << 2, 1 >>)
  /\ fn_pc = "off"
  /\ gene_ret = None
  /\ build_ret = Ok(<< >>)
  /\ raw \in RawTuples
  /\ ctor_ret = Ok(<< >>)
  /\ ctor_pc = "raw"
  /\ HgvsParked

\* Variant(**raw), as read_vcf does for each ALT allele
ConstructVariant ==
  /\ ctor_pc = "raw"
  /\ ctor_ret' = VariantCtor(raw)
  /\ ctor_pc' = IF VariantCtor(raw).status = "ok" THEN "constructed" ELSE "rejected"
  /\ UNCHANGED << pipeVars, fnVars, raw, hgvsVars >>

\* build_annotation([variant]) on the constructed Variant, the service
\* answering with one element
AnnotateConstructed ==
  /\ ctor_pc = "constructed"
  /\ build_ret' = MergeFrom(<< ctor_ret.value >>, << vep_record >>, 1, << >>)
  /\ ctor_pc' = "annotated"
  /\ UNCHANGED << pipeVars, vep_record, fn_variant, fn_pc, gene_ret, raw, ctor_ret, hgvsVars >>

NextVariant == ConstructVariant \/ AnnotateConstructed

SpecVariant == InitVariant /\ [][NextVariant]_vars

\* --------------------------------------------- direct calls of make_hgvs
RECURSIVE SeqsUpTo(_, _)
SeqsUpTo(S, n) ==
  IF n = 0 THEN { << >> }
  ELSE SeqsUpTo(S, n - 1) \cup { Append(q, c) : q \in SeqsUpTo(S, n - 1), c \in S }

Alleles == SeqsUpTo(Bases, MaxAlleleLen)

\* CHROM values and 1-based positions the calls are tried on.
Chroms == { << "1" >>, << "G", "L", "1", ".", "1" >> }
PosSamples == { 1, 10, 99 }

InitHgvs ==
  /\ input = << >>
  /\ batch_size = 1
  /\ threads = 1
  /\ next = 1
  /\ batch = << >>
  /\ batch_obj = 0
  /\ futures = << >>
  /\ work = << >>
  /\ emitted = << >>
  /\ pc = "off"
  /\ drain_idx = 0
  /\ vep_record = VepTable[1]
  /\ fn_variant = MkVariant(1, << 2, 1 >>)
  /\ fn_pc = "off"
  /\ gene_ret = None
  /\ build_ret = Ok(<< >>)
  /\ CtorParked
  /\ hgvs_args \in [chrom : Chroms, pos : PosSamples, ref : Alleles, alt : Alleles]
  /\ hgvs_ret = << >>
  /\ hgvs_pc = "call"

CallMakeHgvs ==
  /\ hgvs_pc = "call"
  /\ hgvs_ret' = make_hgvs(hgvs_args.chrom, hgvs_args.pos, hgvs_args.ref, hgvs_args.alt)
  /\ hgvs_pc' = "returned"
  /\ UNCHANGED << pipeVars, fnVars, ctorVars, hgvs_args >>

NextHgvs == CallMakeHgvs

SpecHgvs == InitHgvs /\ [][NextHgvs]_vars

\* ================================================================ claims
Works == 1..Len(work)

\* The record obtained by annotating input variant i on its own.  The
\* position is compared first: a row carrying that position was built from
\* that variant, whose read counts are then not both zero.
IsAnnotationOf(row, v) == row.pos = v.pos /\ row = MkAnnotated(v, VepFor(v))

AllAligned == \A k \in Works : work[k].status = "done" /\ work[k].resp = "aligned"

\* C1: when the run ends with no batch failed and every response
\* index-aligned, the rows passed to the sink are, index by index, the
\* annotations of the input variants in input order, whatever the batch size,
\* the worker count and the order in which the workers finished.
OrderingHolds ==
  (pc = "done" /\ AllAligned) =>
     /\ Len(emitted) = Len(input)
     /\ \A i \in 1..Len(input) : IsAnnotationOf(emitted[i], input[i])

\* A finished run of three batches in two groups, the first batch needing
\* three attempts and the second one.
OrderingWitness ==
  /\ pc = "done" /\ AllAligned
  /\ Len(input) = 3 /\ batch_size = 1 /\ threads = 2
  /\ work[1].attempts = 3 /\ work[2].attempts = 1
  /\ Len(emitted) = 3

\* C2: the in-flight list never holds more than worker_count handles, and no
\* more than worker_count units of work are unresolved at once.
Backpressure ==
  /\ Len(futures) <= threads
  /\ Cardinality({ k \in Works : work[k].status = "running" }) <= threads

\* The final partial batch has just been submitted and fills the list.
BackpressureWitness ==
  /\ pc = "final_drain" /\ drain_idx = 1
  /\ batch # << >> /\ Len(batch) < batch_size
  /\ threads = 2 /\ Len(futures) = threads

Positions(b) == { b[i].pos : i \in 1..Len(b) }

\* Rows of batch b that have reached the sink.
EmittedOf(b) == { i \in 1..Len(emitted) : emitted[i].pos \in Positions(b) }

\* Number of input variants in the first m submitted batches.
RECURSIVE BatchPrefixLen(_)
BatchPrefixLen(m) == IF m = 0 THEN 0 ELSE BatchPrefixLen(m - 1) + Len(work[m].batch)

\* C3: a failed unit of work aborts the run when its handle is drained; no
\* row of a failed batch or of a batch submitted after it reaches the sink,
\* and the rows at the sink are always the in-order annotations of the
\* variants of the first m batches, for some m (whole batches only).
FailureSemantics ==
  /\ pc = "aborted" => work[futures[drain_idx]].status = "failed"
  /\ \A k \in Works : work[k].status = "failed" =>
        \A j \in k..Len(work) : EmittedOf(work[j].batch) = {}
  /\ \E m \in 0..Len(work) :
        /\ Len(emitted) = BatchPrefixLen(m)
        /\ \A i \in 1..Len(emitted) : IsAnnotationOf(emitted[i], input[i])

IsMergeOf(result, b, response) ==
  /\ Len(result) = Len(response)
  /\ \A i \in 1..Len(response) : result[i] = MkAnnotated(b[i], response[i])

\* C5: a unit of work that ends normally returns the merge of its batch with
\* the response of the successful attempt, the same whether that attempt was
\* the first or came after failed ones.
RetryTransparency ==
  \A k \in Works :
    work[k].status = "done" =>
      IsMergeOf(work[k].result, work[k].batch,
                ServiceResponse(work[k].batch, work[k].resp))

\* A two-variant batch answered at the third attempt, and one answered at
\* the first, both resolved.
RetryTransparencyWitness ==
  /\ Len(work) >= 2
  /\ work[1].status = "done" /\ work[1].attempts = 3 /\ work[1].resp = "aligned"
  /\ Len(work[1].batch) = 2 /\ Len(work[1].result) = 2
  /\ work[2].status = "done" /\ work[2].attempts = 1

\* C6: an attempt that ends with an exception outside the retryable classes
\* ends the call at once with that same exception, and no attempt follows.
NonRetryableState ==
  \A k \in Works :
    work[k].exc \in FatalClasses =>
      work[k].status = "failed" /\ work[k].error = work[k].exc

NonRetryable ==
  /\ []NonRetryableState
  /\ [][\A k \in Works : work[k].exc \in FatalClasses => work'[k] = work[k]]_vars

\* A non-retryable exception at the second attempt, surfaced by the drain.
NonRetryableWitness ==
  /\ pc = "aborted"
  /\ \E k \in Works : work[k].exc \in FatalClasses /\ work[k].attempts = 2
                       /\ futures[drain_idx] = k

\* C7: a response whose length differs from the request's makes the unit of
\* work fail, and build_annotation never returns a list of another length
\* than its batch.
MalformedResponseRejected ==
  \A k \in Works :
    /\ work[k].resp \in {"short", "long"} =>
         work[k].status = "failed" /\ work[k].result = << >>
    /\ work[k].status = "done" => Len(work[k].result) = Len(work[k].batch)

\* C8: when the run ends without error every submitted batch was drained,
\* the in-flight list and the pending batch are empty, and every input
\* variant was emitted exactly once.
FinalDrainComplete ==
  pc = "done" =>
    /\ \A k \in Works : work[k].status = "done"
    /\ BatchPrefixLen(Len(work)) = Len(input)
    /\ futures = << >>
    /\ batch = << >>
    /\ \A i \in 1..Len(input) :
         Cardinality({ j \in 1..Len(emitted) : emitted[j].pos = input[i].pos }) = 1

\* Indices of the transcript consequences of a response element whose
\* consequence_terms contain its most_severe_consequence.
Matching(rec) ==
  { j \in 1..Len(GetTranscripts(rec)) :
      rec.most_severe_consequence \in GetTranscripts(rec)[j].consequence_terms }

\* C9: get_genes_for_most_severe_consequence returns the gene symbol of the
\* matching transcript consequence of least index, and None when the key is
\* missing, the list is empty or no transcript consequence matches.
GeneSelection ==
  fn_pc = "genes" =>
    IF Matching(vep_record) = {}
    THEN gene_ret = None
    ELSE \E j \in Matching(vep_record) :
           /\ \A k \in Matching(vep_record) : j <= k
           /\ gene_ret = vep_record.transcript_consequences[j].gene_symbol

\* Two matching transcripts of different genes: the first one is returned.
GeneSelectionWitness ==
  /\ fn_pc = "genes"
  /\ Len(GetTranscripts(vep_record)) = 2
  /\ Matching(vep_record) = {1, 2}
  /\ vep_record.transcript_consequences[1].gene_symbol = "GENE_B"
  /\ vep_record.transcript_consequences[2].gene_symbol = "GENE_A"
  /\ gene_ret = "GENE_B"

\* build_annotation returned a record for the response element.
Annotated == fn_pc = "annotated" /\ build_ret.status = "ok"

\* C10 as claimed: with no matching transcript consequence both gene and
\* consequence of the AnnotatedVariant are None.
AbsentAnnotation ==
  (Annotated /\ Matching(vep_record) = {}) =>
     /\ build_ret.value[1].gene = None
     /\ build_ret.value[1].consequence = None

\* C10 as amended: with no matching transcript consequence the gene is None
\* and the consequence is the element's most_severe_consequence.
AbsentGeneOnly ==
  (Annotated /\ Matching(vep_record) = {}) =>
     /\ build_ret.value[1].gene = None
     /\ build_ret.value[1].consequence = vep_record.most_severe_consequence

\* Transcript consequences present, none matching, record built.
AbsentGeneOnlyWitness ==
  /\ Annotated
  /\ vep_record.has_tc /\ Len(vep_record.transcript_consequences) = 2
  /\ Matching(vep_record) = {}
  /\ build_ret.value[1].gene = None

\* C11: for every Variant that passed validation the merge succeeds and the
\* alt_perc of the record is alt_reads * 100 / (alt_reads + ref_reads), to
\* the two decimals kept, within [0, 100].
AltPercentDefined ==
  ctor_pc = "annotated" =>
    /\ build_ret.status = "ok"
    /\ LET v == ctor_ret.value
           d == v.alt_reads + v.ref_reads
           e == build_ret.value[1].alt_perc * d - v.alt_reads * 10000
       IN /\ 2 * e <= d /\ 2 * e >= 0 - d
          /\ build_ret.value[1].alt_perc >= 0
          /\ build_ret.value[1].alt_perc <= 10000

\* C14: construction fails whenever a claimed invariant is violated, so a
\* constructed Variant satisfies all of them.
BreaksInvariant(kw) ==
  \/ kw.ref_reads + kw.alt_reads > kw.depth
  \/ kw.alt = kw.ref
  \/ kw.maf < 0 \/ kw.maf > 100
  \/ kw.pos <= 0
  \/ \E a \in {kw.ref, kw.alt} : a = << >> \/ \E i \in 1..Len(a) : a[i] \notin Bases

ConstructionValidation ==
  /\ ctor_pc \in {"constructed", "rejected", "annotated"} =>
       (BreaksInvariant(raw) => ctor_ret.status = "error")
  /\ ctor_pc \in {"constructed", "annotated"} =>
       ctor_ret.value = raw /\ ~BreaksInvariant(raw)

\* A tuple whose only fault is ref_reads + alt_reads > depth, rejected.
ConstructionValidationWitness ==
  /\ ctor_pc = "rejected"
  /\ raw.pos = 1 /\ raw.ref = << "A" >> /\ raw.alt = << "A", "C" >> /\ raw.maf = 50
  /\ raw.depth = 1 /\ raw.ref_reads = 1 /\ raw.alt_reads = 1
  /\ ctor_ret.status = "error"

Returned == hgvs_pc = "returned"

MinOf(a, b) == IF a <= b THEN a ELSE b

\* Length of the longest common prefix / suffix of two strings.
SharedPrefixLen(x, y) ==
  CHOOSE j \in 0..MinOf(Len(x), Len(y)) :
    /\ SubSeq(x, 1, j) = SubSeq(y, 1, j)
    /\ \A m \in 0..MinOf(Len(x), Len(y)) : SubSeq(x, 1, m) = SubSeq(y, 1, m) => m <= j

SharedSuffixLen(x, y) ==
  CHOOSE j \in 0..MinOf(Len(x), Len(y)) :
    /\ SubSeq(x, Len(x) - j + 1, Len(x)) = SubSeq(y, Len(y) - j + 1, Len(y))
    /\ \A m \in 0..MinOf(Len(x), Len(y)) :
         SubSeq(x, Len(x) - m + 1, Len(x)) = SubSeq(y, Len(y) - m + 1, Len(y)) => m <= j

\* The notation and class C12 gives for chrom, p = position + shared-prefix
\* length and the doubly-trimmed remainders R, A.
ClaimedNotation(chrom, p, R, A) ==
  LET head == chrom \o << ":", "g", "." >>
  IN CASE Len(R) = 1 /\ Len(A) = 1 ->
            << head \o Str(p) \o R \o << ">" >> \o A, "sub" >>
       [] Len(A) = 0 /\ Len(R) = 1 ->
            << head \o Str(p) \o << "d", "e", "l" >>, "del" >>
       [] Len(A) = 0 /\ Len(R) # 1 ->
            << head \o Str(p) \o << "_" >> \o Str(p + Len(R) - 1) \o << "d", "e", "l" >>, "del" >>
       [] Len(R) = 0 /\ Len(A) > 0 ->
            << head \o Str(p - 1) \o << "_" >> \o Str(p) \o << "i", "n", "s" >> \o A, "ins" >>
       [] OTHER ->
            << head \o Str(p) \o << "_" >> \o Str(p + Len(R) - 1)
                 \o << "d", "e", "l", "i", "n", "s" >> \o A, "delins" >>

\* C12: for ref # alt, make_hgvs returns the notation and the class the
\* lengths of the doubly-trimmed remainders select, at position + shared
\* prefix length; the class is one of sub, del, ins, delins.
NormalizationResult ==
  (Returned /\ hgvs_args.ref # hgvs_args.alt) =>
    LET k == SharedPrefixLen(hgvs_args.ref, hgvs_args.alt)
        r1 == SubSeq(hgvs_args.ref, k + 1, Len(hgvs_args.ref))
        a1 == SubSeq(hgvs_args.alt, k + 1, Len(hgvs_args.alt))
        t == SharedSuffixLen(r1, a1)
        R == SubSeq(r1, 1, Len(r1) - t)
        A == SubSeq(a1, 1, Len(a1) - t)
        claimed == ClaimedNotation(hgvs_args.chrom, hgvs_args.pos + k, R, A)
    IN /\ hgvs_ret.notation = claimed[1]
       /\ hgvs_ret.variant_type = claimed[2]
       /\ hgvs_ret.variant_type \in {"sub", "del", "ins", "delins"}

\* make_hgvs("1", 99, "A", "ATG") returned "1:g.99_100insTG", "ins".
NormalizationResultWitness ==
  /\ Returned
  /\ hgvs_args = [chrom |-> << "1" >>, pos |-> 99, ref |-> << "A" >>,
                  alt |-> << "A", "T", "G" >>]
  /\ hgvs_ret.variant_type = "ins"
  /\ hgvs_ret.notation =
       << "1", ":", "g", ".", "9", "9", "_", "1", "0", "0", "i", "n", "s", "T", "G" >>

\* ---- reading a notation string back
IsDigit(c) == \E d \in 1..10 : DigitChars[d] = c
DigitValue(c) == (CHOOSE d \in 1..10 : DigitChars[d] = c) - 1

RECURSIVE ParseInt(_)
ParseInt(digits) ==
  IF digits = << >> THEN 0
  ELSE 10 * ParseInt(SubSeq(digits, 1, Len(digits) - 1)) + DigitValue(digits[Len(digits)])

\* Number of digits the string starts with.
LeadingDigits(str) ==
  CHOOSE j \in 0..Len(str) :
    /\ \A i \in 1..j : IsDigit(str[i])
    /\ j < Len(str) => ~IsDigit(str[j + 1])

\* The coordinate expression after the last ":" and "g.": first coordinate,
\* optional "_" and second coordinate, and the text that follows.
ParseCoordinates(notation) ==
  LET colon == CHOOSE i \in 1..Len(notation) :
                 notation[i] = ":" /\ \A m \in (i + 1)..Len(notation) : notation[m] # ":"
      body == SubSeq(notation, colon + 3, Len(notation))
      n1 == LeadingDigits(body)
      rest1 == SubSeq(body, n1 + 1, Len(body))
      span == rest1 # << >> /\ rest1[1] = "_"
      rest2 == SubSeq(rest1, 2, Len(rest1))
      n2 == LeadingDigits(rest2)
  IN [start |-> ParseInt(SubSeq(body, 1, n1)),
      span |-> span,
      end |-> IF span THEN ParseInt(SubSeq(rest2, 1, n2)) ELSE 0,
      text |-> IF span THEN SubSeq(rest2, n2 + 1, Len(rest2)) ELSE rest1]

\* Reference length from the coordinates: 0 for ins, the span, or 1.
RederivedRefLen(notation, class) ==
  LET c == ParseCoordinates(notation)
  IN IF class = "ins" THEN 0
     ELSE IF c.span THEN c.end - c.start + 1
     ELSE 1

\* Alternate length from the text after the coordinates: 0 for del, what
\* follows ">", "ins" or "delins" otherwise.
RederivedAltLen(notation, class) ==
  LET text == ParseCoordinates(notation).text
  IN CASE class = "del" -> 0
       [] class = "sub" -> Len(text) - (CHOOSE i \in 1..Len(text) : text[i] = ">")
       [] class = "ins" -> Len(text) - 3
       [] OTHER -> Len(text) - 6

\* C13: for ref # alt the lengths of the trimmed remainders used for the
\* classification are recovered from the returned notation and class.
NormalizationRoundTrip ==
  (Returned /\ hgvs_args.ref # hgvs_args.alt) =>
    /\ RederivedRefLen(hgvs_ret.notation, hgvs_ret.variant_type) = Len(hgvs_ret.ref_final)
    /\ RederivedAltLen(hgvs_ret.notation, hgvs_ret.variant_type) = Len(hgvs_ret.alt_final)

\* A two-base delins on a contig whose name holds a ".", the span 99_100.
NormalizationRoundTripWitness ==
  /\ Returned
  /\ hgvs_args.chrom = << "G", "L", "1", ".", "1" >> /\ hgvs_args.pos = 99
  /\ hgvs_ret.variant_type = "delins"
  /\ Len(hgvs_ret.ref_final) = 2 /\ Len(hgvs_ret.alt_final) = 3
  /\ ParseCoordinates(hgvs_ret.notation).end = 100

\* C17: the prefix is trimmed exhaustively and the position advanced by its
\* length; the suffix is trimmed from what the prefix pass left, so the two
\* passes share no character; non-empty final remainders differ in their
\* first and in their last character; for ref # alt they are not both empty.
TrimOrder ==
  Returned =>
    LET ref == hgvs_args.ref
        alt == hgvs_args.alt
        r == hgvs_ret
    IN /\ \A i \in 1..r.prefix : ref[i] = alt[i]
       /\ r.prefix = MinOf(Len(ref), Len(alt)) \/ ref[r.prefix + 1] # alt[r.prefix + 1]
       /\ r.pos = hgvs_args.pos + r.prefix
       /\ r.prefix + r.suffix <= MinOf(Len(ref), Len(alt))
       /\ r.ref_final = SubSeq(ref, r.prefix + 1, Len(ref) - r.suffix)
       /\ r.alt_final = SubSeq(alt, r.prefix + 1, Len(alt) - r.suffix)
       /\ (r.ref_final # << >> /\ r.alt_final # << >>) =>
            /\ r.ref_final[1] # r.alt_final[1]
            /\ r.ref_final[Len(r.ref_final)] # r.alt_final[Len(r.alt_final)]
       /\ ref # alt => ~(r.ref_final = << >> /\ r.alt_final = << >>)

\* "AAA" against "A": the prefix pass takes the only shared base and the
\* suffix pass finds nothing left to take.
TrimOrderWitness ==
  /\ Returned
  /\ hgvs_args.ref = << "A", "A", "A" >> /\ hgvs_args.alt = << "A" >>
  /\ hgvs_ret.prefix = 1 /\ hgvs_ret.suffix = 0
  /\ hgvs_ret.ref_final = << "A", "A" >> /\ hgvs_ret.alt_final = << >>

\* The handles of the group being drained.
Draining == pc \in {"drain", "final_drain"}

Unresolved(i) == work[futures[i]].status = "running"

RECURSIVE Submitted(_)
\* The batches submitted so far, concatenated in submission order.
Submitted(m) == IF m = 0 THEN << >> ELSE Submitted(m - 1) \o work[m].batch

\* C16: the submitted batches, concatenated in submission order, are the
\* input consumed so far less the batch being accumulated, and the whole
\* input once the input is exhausted; every submitted batch is non-empty and
\* holds at most batch_size elements, every batch but the last holds exactly
\* batch_size; the in-flight list holds the handles in submission order.
BatchPartitioning ==
  /\ Submitted(Len(work)) \o batch = SubSeq(input, 1, next - 1)
     \/ (pc # "loop" /\ next > Len(input))
  /\ (pc \in {"final_drain", "done"} \/ (pc = "aborted" /\ next > Len(input))) =>
       Submitted(Len(work)) = input
  /\ Submitted(Len(work)) = SubSeq(input, 1, Len(Submitted(Len(work))))
  /\ \A k \in Works :
       /\ work[k].batch # << >>
       /\ Len(work[k].batch) <= batch_size
       /\ k < Len(work) => Len(work[k].batch) = batch_size
  /\ \A i \in 1..Len(futures) : futures[i] = Len(work) - Len(futures) + i

\* Three variants in batches of two: a full batch and a last batch of one.
BatchPartitioningWitness ==
  /\ pc = "done"
  /\ Len(input) = 3 /\ batch_size = 2
  /\ Len(work) = 2
  /\ Len(work[1].batch) = 2 /\ Len(work[2].batch) = 1

\* A step of a pool worker: an attempt of some unit of work.
WorkerStep == \E k \in Works : work'[k].attempts # work[k].attempts

\* C18: a submitted batch is never changed; a worker's step changes nothing
\* but its own handle, so neither the in-flight list nor the sink nor the
\* orchestrator's position; and the orchestrator's batch is a list object of
\* its own as long as it appends, sharing one with a unit of work only once
\* the input is exhausted.
NoRaceOnBatch ==
  /\ [][\A k \in Works : /\ work'[k].batch = work[k].batch
                         /\ work'[k].obj = work[k].obj]_vars
  /\ [][WorkerStep =>
          /\ UNCHANGED << futures, emitted, batch, batch_obj, next, pc, drain_idx >>
          /\ Len(work') = Len(work)
          /\ Cardinality({ k \in Works : work'[k] # work[k] }) = 1]_vars
  /\ [](\A k \in Works : work[k].obj = batch_obj => pc # "loop" /\ next > Len(input))

\* A unit of work is between two attempts while the orchestrator has already
\* appended a variant to the next batch.
NoRaceOnBatchWitness ==
  /\ pc = "loop" /\ batch # << >>
  /\ \E k \in Works : /\ work[k].status = "running"
                      /\ work[k].attempts = 1
                      /\ work[k].obj # batch_obj

====
